---- MODULE Spec2Model ----
(***************************************************************************)
(* Model of the Vue component 'message-headers-view'                       *)
(* (management/reporting/ui/message_headers_view.js).                      *)
(*                                                                         *)
(* The component owns three data fields (loading, loading_msg,             *)
(* message_headers), receives two props (lmtp_id, user_id), and calls      *)
(* load() from the mounted hook and from the lmtp_id watcher.  load()      *)
(* issues a POST whose promise is chained .then().catch().finally().       *)
(* Each handler of the chain is one step of the model; the steps of one    *)
(* chain run back to back (microtasks), never interleaved with a prop      *)
(* update or with another response (macrotasks).                           *)
(***************************************************************************)
EXTENDS Integers, Sequences, FiniteSets

\* ---------------------------------------------------------------- bounds
\* Cap on the number of load() calls in one behaviour.
MaxLoads == 2

\* ------------------------------------------------------------ JS values
Undef == [t |-> "undefined", v |-> ""]
Str(s) == [t |-> "string", v |-> s]
Obj == [t |-> "object", v |-> ""]

\* JavaScript truthiness: undefined and '' are falsy, objects are truthy.
Truthy(x) == \/ x.t = "object"
             \/ x.t = "string" /\ x.v # ""

\* an Error object as delivered to the catch handler: `response` may be
\* missing (network error) and `response.data` may be anything
ErrorObj(hasResponse, data, message) ==
    [t |-> "error", hasResponse |-> hasResponse, data |-> data, message |-> message]

NoError == ErrorObj(FALSE, Undef, "")

\* String(x) as done by  '' + x
ToString(x) ==
    CASE x.t = "string"    -> x.v
      [] x.t = "undefined" -> "undefined"
      [] x.t = "object"    -> "[object Object]"
      [] x.t = "error"     -> "Error: " \o x.message

\* values the parent can bind to the props (type String, not required)
LmtpIds == {Undef, Str(""), Str("X"), Str("Z")}
UserIds == {Undef, Str(""), Str("Y")}

\* response bodies of a successful POST (raw header text, '' = not found)
Bodies == {"", "H1", "H2"}

\* errors a rejected POST can carry
Errors == {ErrorObj(FALSE, Undef, "Network Error")} \cup
          {ErrorObj(TRUE, d, "Request failed with status code 500") :
               d \in {Undef, Str(""), Str("boom"), Obj}}

\* ----------------------------------------------------------------- state
VARIABLES
    lmtp_id,          \* prop
    user_id,          \* prop
    isMounted,        \* the mounted hook has run
    loading,          \* data.loading
    loading_msg,      \* data.loading_msg
    message_headers,  \* data.message_headers
    requests,         \* the POSTs issued by load, in issue order, each with
                      \* the state of the four promises of its chain
    calls,            \* history: arguments of every load() call
    completed         \* history: request indices in order of completion

vars == <<lmtp_id, user_id, isMounted, loading, loading_msg, message_headers,
          requests, calls, completed>>

\* the post promise has not settled yet
Pending(r) == r.p0 = "pending"

\* the chain of r has not run to its end (finally has not run)
Unfinished(r) == r.p3 = "pending"

InFlight == {i \in DOMAIN requests : Unfinished(requests[i])}

\* the handlers of some chain are being run (microtask drain)
Running == \E i \in DOMAIN requests :
               ~Pending(requests[i]) /\ Unfinished(requests[i])

\* ------------------------------------------------------------------ data
\* variant: the component starts in the idle state
Init_idle ==
    /\ lmtp_id \in LmtpIds
    /\ user_id \in UserIds
    /\ isMounted = FALSE
    /\ loading = FALSE
    /\ loading_msg = ""
    /\ message_headers = ""
    /\ requests = <<>>
    /\ calls = <<>>
    /\ completed = <<>>

Init ==
    /\ lmtp_id \in LmtpIds
    /\ user_id \in UserIds
    /\ isMounted = FALSE
    /\ loading = TRUE
    /\ loading_msg = ""
    /\ message_headers = ""
    /\ requests = <<>>
    /\ calls = <<>>
    /\ completed = <<>>

\* ------------------------------------------------------------------ load
\* lmtp_id and user_id are the values captured by the closures of the chain;
\* p0 is the promise of post(), p1..p3 those of then/catch/finally;
\* `overlaps` records which earlier requests were unfinished at issue time.
NewRequest(l, u) ==
    [lmtp_id |-> l.v, user_id |-> u.v,
     p0 |-> "pending", p1 |-> "pending", p2 |-> "pending", p3 |-> "pending",
     data |-> "", err |-> NoError, overlaps |-> InFlight]

\* variant: the missing-identifier path also ends the loading state
load_stop_loading(l, u) ==
    /\ calls' = Append(calls, <<l, u>>)
    /\ IF ~Truthy(l) \/ ~Truthy(u)
       THEN /\ message_headers' = "no data"
            /\ loading' = FALSE
            /\ UNCHANGED <<loading_msg, requests>>
       ELSE /\ loading' = TRUE
            /\ loading_msg' = "Searching for message with LMTP ID " \o l.v
            /\ requests' = Append(requests, NewRequest(l, u))
            /\ UNCHANGED message_headers

\* variant: the POST is issued twice
load_twice(l, u) ==
    /\ calls' = Append(calls, <<l, u>>)
    /\ IF ~Truthy(l) \/ ~Truthy(u)
       THEN /\ message_headers' = "no data"
            /\ UNCHANGED <<loading, loading_msg, requests>>
       ELSE /\ loading' = TRUE
            /\ loading_msg' = "Searching for message with LMTP ID " \o l.v
            /\ requests' = Append(Append(requests, NewRequest(l, u)), NewRequest(l, u))
            /\ UNCHANGED message_headers

\* variant: the previous content is cleared when a request is issued
load_clears_headers(l, u) ==
    /\ calls' = Append(calls, <<l, u>>)
    /\ IF ~Truthy(l) \/ ~Truthy(u)
       THEN /\ message_headers' = "no data"
            /\ UNCHANGED <<loading, loading_msg, requests>>
       ELSE /\ loading' = TRUE
            /\ loading_msg' = "Searching for message with LMTP ID " \o l.v
            /\ requests' = Append(requests, NewRequest(l, u))
            /\ message_headers' = ""

load(l, u) ==
    /\ calls' = Append(calls, <<l, u>>)
    /\ IF ~Truthy(l) \/ ~Truthy(u)
       THEN /\ message_headers' = "no data"
            /\ UNCHANGED <<loading, loading_msg, requests>>
       ELSE /\ loading' = TRUE
            /\ loading_msg' = "Searching for message with LMTP ID " \o l.v
            /\ requests' = Append(requests, NewRequest(l, u))
            /\ UNCHANGED message_headers

\* --------------------------------------------------------------- mounted
mounted ==
    /\ ~isMounted
    /\ isMounted' = TRUE
    /\ load(lmtp_id, user_id)
    /\ UNCHANGED <<lmtp_id, user_id, completed>>

\* ----------------------------------------------------------------- watch
\* The parent re-renders with new prop values; the lmtp_id watcher runs in
\* the same flush, after both props hold their new values.
watch_lmtp_id ==
    /\ isMounted
    /\ ~Running
    /\ Len(calls) < MaxLoads
    /\ \E l \in LmtpIds \ {lmtp_id}, u \in UserIds :
          /\ lmtp_id' = l
          /\ user_id' = u
          /\ load(l, u)
    /\ UNCHANGED <<isMounted, completed>>

\* variant: a watcher on user_id reloads as well
set_user_id_watched ==
    /\ isMounted
    /\ ~Running
    /\ Len(calls) < MaxLoads
    /\ \E u \in UserIds \ {user_id} :
          /\ user_id' = u
          /\ load(lmtp_id, u)
    /\ UNCHANGED <<lmtp_id, isMounted, completed>>

\* user_id alone changes: there is no watcher for it
set_user_id ==
    /\ isMounted
    /\ ~Running
    /\ \E u \in UserIds \ {user_id} : user_id' = u
    /\ UNCHANGED <<lmtp_id, isMounted, loading, loading_msg, message_headers,
                   requests, calls, completed>>

\* ------------------------------------------------- the POST settles (p0)
Resolve ==
    /\ ~Running
    /\ \E i \in DOMAIN requests, b \in Bodies :
          /\ Pending(requests[i])
          /\ requests' = [requests EXCEPT ![i].p0 = "fulfilled", ![i].data = b]
    /\ UNCHANGED <<lmtp_id, user_id, isMounted, loading, loading_msg,
                   message_headers, calls, completed>>

Reject ==
    /\ ~Running
    /\ \E i \in DOMAIN requests, e \in Errors :
          /\ Pending(requests[i])
          /\ requests' = [requests EXCEPT ![i].p0 = "rejected", ![i].err = e]
    /\ UNCHANGED <<lmtp_id, user_id, isMounted, loading, loading_msg,
                   message_headers, calls, completed>>

\* ------------------------------------------------------ .then(response)
NotFound(l) == "Message with LMTP \"" \o l \o "\" not found. It may have been deleted."

\* variant: the emptiness test is inverted
ThenValue_inverted(r) == IF r.data # "" THEN NotFound(r.lmtp_id) ELSE r.data

\* variant: the emptiness test is missing
ThenValue_unchecked(r) == r.data

\* variant: the template reads the prop instead of the call's argument
ThenValue_current_prop(r) ==
    IF r.data = "" THEN NotFound(lmtp_id.v) ELSE r.data

ThenValue(r) == IF r.data = "" THEN NotFound(r.lmtp_id) ELSE r.data

then_handler ==
    /\ \E i \in DOMAIN requests :
          /\ requests[i].p0 # "pending"
          /\ requests[i].p1 = "pending"
          /\ IF requests[i].p0 = "fulfilled"
             THEN /\ message_headers' = ThenValue(requests[i])
                  /\ requests' = [requests EXCEPT ![i].p1 = "fulfilled"]
             ELSE \* no rejection handler: the rejection passes through
                  /\ requests' = [requests EXCEPT ![i].p1 = "rejected"]
                  /\ UNCHANGED message_headers
    /\ UNCHANGED <<lmtp_id, user_id, isMounted, loading, loading_msg,
                   calls, completed>>

\* ------------------------------------------------------------ .catch(e)
\* e.response.data throws a TypeError when e has no response
CatchThrows(e) == ~e.hasResponse

CatchValue(e) == ToString(IF Truthy(e.data) THEN e.data ELSE e)

\* variant: a failed request is issued again
catch_handler_retry ==
    /\ \E i \in DOMAIN requests :
          /\ requests[i].p1 # "pending"
          /\ requests[i].p2 = "pending"
          /\ IF requests[i].p1 = "fulfilled"
             THEN /\ requests' = [requests EXCEPT ![i].p2 = "fulfilled"]
                  /\ UNCHANGED message_headers
             ELSE IF CatchThrows(requests[i].err)
                  THEN /\ requests' = [requests EXCEPT ![i].p2 = "rejected"]
                       /\ UNCHANGED message_headers
                  ELSE /\ message_headers' = CatchValue(requests[i].err)
                       /\ requests' =
                             IF Len(requests) < MaxLoads
                             THEN Append([requests EXCEPT ![i].p2 = "fulfilled"],
                                         [requests[i] EXCEPT !.p0 = "pending",
                                                             !.p1 = "pending",
                                                             !.err = NoError])
                             ELSE [requests EXCEPT ![i].p2 = "fulfilled"]
    /\ UNCHANGED <<lmtp_id, user_id, isMounted, loading, loading_msg,
                   calls, completed>>

catch_handler ==
    /\ \E i \in DOMAIN requests :
          /\ requests[i].p1 # "pending"
          /\ requests[i].p2 = "pending"
          /\ IF requests[i].p1 = "fulfilled"
             THEN /\ requests' = [requests EXCEPT ![i].p2 = "fulfilled"]
                  /\ UNCHANGED message_headers
             ELSE IF CatchThrows(requests[i].err)
                  THEN /\ requests' = [requests EXCEPT ![i].p2 = "rejected"]
                       /\ UNCHANGED message_headers
                  ELSE /\ message_headers' = CatchValue(requests[i].err)
                       /\ requests' = [requests EXCEPT ![i].p2 = "fulfilled"]
    /\ UNCHANGED <<lmtp_id, user_id, isMounted, loading, loading_msg,
                   calls, completed>>

\* ------------------------------------------------------------ .finally()
FinallyRuns(r) == r.p2 # "pending"

\* variant: the cleanup is chained with then() and is skipped on rejection
finally_handler_as_then ==
    /\ \E i \in DOMAIN requests :
          /\ FinallyRuns(requests[i])
          /\ requests[i].p3 = "pending"
          /\ IF requests[i].p2 = "fulfilled"
             THEN loading' = FALSE
             ELSE UNCHANGED loading
          /\ requests' = [requests EXCEPT ![i].p3 = requests[i].p2]
          /\ completed' = Append(completed, i)
    /\ UNCHANGED <<lmtp_id, user_id, isMounted, loading_msg, message_headers,
                   calls>>

finally_handler ==
    /\ \E i \in DOMAIN requests :
          /\ FinallyRuns(requests[i])
          /\ requests[i].p3 = "pending"
          /\ loading' = FALSE
          /\ requests' = [requests EXCEPT ![i].p3 = requests[i].p2]
          /\ completed' = Append(completed, i)
    /\ UNCHANGED <<lmtp_id, user_id, isMounted, loading_msg, message_headers,
                   calls>>

\* ------------------------------------------------------------- template
\* v-if="loading": the loading message and the spinner; v-else: the <pre>
View == IF loading
        THEN [branch |-> "spinner", text |-> loading_msg]
        ELSE [branch |-> "pre", text |-> message_headers]

\* ------------------------------------------------------------------ spec
Next ==
    \/ mounted
    \/ watch_lmtp_id
    \/ set_user_id
    \/ Resolve
    \/ Reject
    \/ then_handler
    \/ catch_handler
    \/ finally_handler

Spec == Init /\ [][Next]_vars

\* Every POST is eventually answered (no timeout in the component: the
\* transport settles the promise) and queued promise handlers always run.
\* Nothing forces the parent to keep changing the props.
FairSpec ==
    /\ Spec
    /\ WF_vars(Resolve \/ Reject)
    /\ WF_vars(then_handler)
    /\ WF_vars(catch_handler)
    /\ WF_vars(finally_handler)

\* ======================================================== properties
\* requests whose POST has not been answered yet
Outstanding == {i \in DOMAIN requests : Pending(requests[i])}

\* load() calls so far that passed the identifier check
IssuingCalls == {k \in DOMAIN calls : Truthy(calls[k][1]) /\ Truthy(calls[k][2])}

\* the step runs the then / catch / finally handler of request i
ThenRan(i) == requests[i].p0 # "pending" /\ requests[i].p1 = "pending"
              /\ requests'[i].p1 # "pending"
CatchRan(i) == requests[i].p1 # "pending" /\ requests[i].p2 = "pending"
               /\ requests'[i].p2 # "pending"
FinallyRan(i) == requests[i].p2 # "pending" /\ requests[i].p3 = "pending"
                 /\ requests'[i].p3 # "pending"

\* the step is a call of load with arguments l, u
LoadCalled(l, u) == calls' = Append(calls, <<l, u>>)

\* the text a request is meant to leave on display, per its outcome
Displayed(r) ==
    IF r.p0 = "fulfilled"
    THEN (IF r.data = ""
          THEN "Message with LMTP \"" \o r.lmtp_id \o "\" not found. It may have been deleted."
          ELSE r.data)
    ELSE (IF r.err.hasResponse /\ Truthy(r.err.data)
          THEN ToString(r.err.data)
          ELSE ToString(r.err))

\* C1: in every reachable state, loading is true if and only if at least one
\* request issued by load is still in flight.
C1_LoadingIffInFlight == loading <=> (InFlight # {})

\* C2: a load call in which lmtp_id or user_id is absent or empty sets
\* message_headers to exactly "no data", issues no request, and leaves
\* loading and loading_msg as they were.
C2_NoDataPath ==
    [][\A l \in LmtpIds, u \in UserIds :
          (LoadCalled(l, u) /\ (~Truthy(l) \/ ~Truthy(u)))
          => /\ message_headers' = "no data"
             /\ requests' = requests
             /\ loading' = loading
             /\ loading_msg' = loading_msg]_vars

\* a missing-identifier load made after a request for "X" has completed:
\* loading is still false and loading_msg still the text of that request
C2_Witness ==
    /\ Len(calls) = 2
    /\ ~Truthy(calls[2][1]) \/ ~Truthy(calls[2][2])
    /\ message_headers = "no data"
    /\ Len(requests) = 1
    /\ loading = FALSE
    /\ loading_msg = "Searching for message with LMTP ID X"

\* C3: when the error of a rejected request has no response field, the
\* failure handler sets message_headers to the stringified error object.
C3_NoResponseStringified ==
    [][\A i \in DOMAIN requests :
          (CatchRan(i) /\ requests[i].p1 = "rejected"
                       /\ ~requests[i].err.hasResponse)
          => message_headers' = ToString(requests[i].err)]_vars

\* C4: every request failure is absorbed: the promise chain started by load
\* never ends rejected.
C4_Absorbed == \A i \in DOMAIN requests : requests[i].p3 # "rejected"

\* C5: when a request is issued while an earlier one is in flight, the
\* completion of the later-finishing of the two leaves loading false and
\* message_headers holding the result of that last-completing request.
C5_LastCompletionWins ==
    [][\A i \in DOMAIN requests, j \in DOMAIN requests :
          (/\ j \in requests[i].overlaps
           /\ \/ FinallyRan(i) /\ ~Unfinished(requests[j])
              \/ FinallyRan(j) /\ ~Unfinished(requests[i]))
          => /\ loading' = FALSE
             /\ message_headers' =
                   Displayed(requests'[completed'[Len(completed')]])]_vars

\* C6 (as stated): at any time at most one request is outstanding.
C6_AtMostOneOutstanding == Cardinality(Outstanding) <= 1

\* C6 (amended): at any time the number of outstanding requests is at most
\* the number of load calls made so far with both identifiers present.
C6_OutstandingBoundedByLoads ==
    Cardinality(Outstanding) <= Cardinality(IssuingCalls)

\* two requests outstanding at once, the second issued by an lmtp_id change
C6_Witness ==
    /\ Cardinality(Outstanding) = 2
    /\ Len(calls) = 2
    /\ 1 \in requests[2].overlaps

\* C7: whenever a request completes, by success or by failure of any shape,
\* loading is false right after its completion handlers have run.
C7_LoadingFalseAfterCompletion ==
    [][\A i \in DOMAIN requests :
          (Unfinished(requests[i]) /\ ~Unfinished(requests'[i]))
          => loading' = FALSE]_vars

\* a request whose failure handler threw has completed and loading is false
C7_Witness ==
    \E i \in DOMAIN requests :
        /\ requests[i].p0 = "rejected"
        /\ requests[i].p3 = "rejected"
        /\ loading = FALSE

\* C8: load is called once at mount with the current lmtp_id and user_id,
\* once per change of lmtp_id with the new lmtp_id and the current user_id,
\* and not at all (and no request is issued) when only user_id changes.
C8_LoadTriggers ==
    [][/\ (~isMounted /\ isMounted')
          => calls' = Append(calls, <<lmtp_id, user_id>>)
       /\ (isMounted /\ lmtp_id' # lmtp_id)
          => calls' = Append(calls, <<lmtp_id', user_id'>>)
       /\ (isMounted' = isMounted /\ lmtp_id' = lmtp_id)
          => (calls' = calls /\ Len(requests') = Len(requests))
       /\ ~isMounted => calls = <<>>]_vars

\* mounted, lmtp_id changed once, then user_id changed on its own
C8_Witness ==
    /\ isMounted
    /\ Len(calls) = 2
    /\ calls[1][1] # calls[2][1]
    /\ calls[2][1] = lmtp_id
    /\ calls[2][2] # user_id
    /\ Truthy(user_id)
    /\ Len(requests) < 2

\* C9: when the only request in flight succeeds with a non-empty body,
\* message_headers becomes that body verbatim and loading ends false.
C9_SuccessVerbatim ==
    [][\A i \in DOMAIN requests :
          (InFlight = {i} /\ requests[i].p0 = "fulfilled"
                          /\ requests[i].data # "")
          => /\ ThenRan(i) => message_headers' = requests[i].data
             /\ FinallyRan(i) => (message_headers' = requests[i].data
                                  /\ loading' = FALSE)]_vars

\* lmtp_id "X", user_id "Y", body "H1"
C9_Witness ==
    /\ Len(requests) = 1
    /\ requests[1].lmtp_id = "X" /\ requests[1].user_id = "Y"
    /\ requests[1].p3 = "fulfilled"
    /\ requests[1].data = "H1"
    /\ message_headers = "H1"
    /\ loading = FALSE

\* C10: when a request for lmtp_id X succeeds with an empty body,
\* message_headers becomes 'Message with LMTP "X" not found. It may have
\* been deleted.' and is not left as the empty string.
C10_EmptyBodyNotFound ==
    [][\A i \in DOMAIN requests :
          (ThenRan(i) /\ requests[i].p0 = "fulfilled" /\ requests[i].data = "")
          => /\ message_headers' =
                   "Message with LMTP \"" \o requests[i].lmtp_id
                       \o "\" not found. It may have been deleted."
             /\ message_headers' # ""]_vars

C10_Witness ==
    /\ \E i \in DOMAIN requests :
          /\ requests[i].lmtp_id = "X"
          /\ requests[i].p1 = "fulfilled"
          /\ requests[i].data = ""
    /\ message_headers = "Message with LMTP \"X\" not found. It may have been deleted."

\* the load call had both identifiers
IsIssuing(c) == Truthy(c[1]) /\ Truthy(c[2])

\* the arguments of the load calls that issued a request, in call order
IssuingArgs == SelectSeq(calls, IsIssuing)

\* C11: when a request is rejected with an error whose response.data payload
\* is present, message_headers becomes the string form of that payload; when
\* the payload is not present, the string form of the error object itself.
C11_PayloadOrError ==
    [][\A i \in DOMAIN requests :
          (CatchRan(i) /\ requests[i].p1 = "rejected")
          => message_headers' =
                (IF requests[i].err.hasResponse /\ Truthy(requests[i].err.data)
                 THEN ToString(requests[i].err.data)
                 ELSE ToString(requests[i].err))]_vars

\* C12: every load call with both identifiers issues exactly one POST with
\* the identifiers passed to that call, and nothing is retried: the requests
\* issued are, in order, those of the load calls with both identifiers.
C12_OnePostPerLoad ==
    /\ Len(requests) = Len(IssuingArgs)
    /\ \A k \in DOMAIN requests :
          /\ requests[k].lmtp_id = IssuingArgs[k][1].v
          /\ requests[k].user_id = IssuingArgs[k][2].v

\* two loads issued one request each; one failed (handled), one failed with
\* a throwing handler, and no further request appeared
C12_Witness ==
    /\ Len(requests) = 2
    /\ Len(calls) = 2
    /\ requests[1].p0 = "rejected" /\ requests[1].p3 = "fulfilled"
    /\ requests[2].p0 = "rejected" /\ requests[2].p3 = "rejected"
    /\ requests[1].lmtp_id # requests[2].lmtp_id

\* C13: if a request has been issued, every request is eventually answered
\* and lmtp_id eventually stops changing, then eventually loading is false
\* and stays false and message_headers holds some non-empty content.
C13_EventuallySettled ==
    (requests # <<>>) ~> [](loading = FALSE /\ message_headers # "")

\* the component was mounted with lmtp_id or user_id missing
MountedMissing == Len(calls) >= 1 /\ ~IsIssuing(calls[1])

\* C14: if the component is mounted with lmtp_id or user_id missing, loading
\* keeps its initial value true, so the spinner branch is rendered (with an
\* empty loading message while no request has been issued) and "no data" is
\* not displayed, as long as no later request has completed.
C14_SpinnerAfterMissingMount ==
    (MountedMissing /\ completed = <<>>)
    => /\ loading = TRUE
       /\ View.branch = "spinner"
       /\ View.text # "no data"
       /\ requests = <<>> => (View.text = "" /\ message_headers = "no data")

\* mounted without user_id; the parent supplied it afterwards, both
\* identifiers are now present, and the spinner is still shown
C14_Witness ==
    /\ MountedMissing
    /\ Len(calls) = 1
    /\ Truthy(lmtp_id) /\ Truthy(user_id)
    /\ View = [branch |-> "spinner", text |-> ""]
    /\ message_headers = "no data"

\* C15: a load call with both identifiers changes only loading, loading_msg
\* and the in-flight requests and leaves message_headers alone;
\* message_headers is written only by the missing-identifier path of load or
\* by a then/catch handler, so earlier content stays until then.
C15_IssueKeepsHeaders ==
    [][/\ \A l \in LmtpIds, u \in UserIds :
             (LoadCalled(l, u) /\ Truthy(l) /\ Truthy(u))
             => /\ message_headers' = message_headers
                /\ completed' = completed
                /\ InFlight' = InFlight \cup {Len(requests')}
                /\ \A i \in DOMAIN requests : requests'[i] = requests[i]
       /\ message_headers' # message_headers
             => \/ \E l \in LmtpIds, u \in UserIds :
                      LoadCalled(l, u) /\ (~Truthy(l) \/ ~Truthy(u))
                \/ \E i \in DOMAIN requests : ThenRan(i) \/ CatchRan(i)]_vars

\* a second request is in flight while the result of the first is still held
C15_Witness ==
    /\ Len(requests) = 2
    /\ requests[1].p3 = "fulfilled" /\ requests[1].data = "H1"
    /\ Pending(requests[2])
    /\ requests[2].overlaps = {}
    /\ loading = TRUE
    /\ message_headers = "H1"

\* C16: the not-found message of a request that succeeds with an empty body
\* embeds the lmtp_id passed to the load call that issued that request, also
\* when the lmtp_id prop has changed and a newer request has been issued.
C16_NotFoundUsesCallArgument ==
    [][\A i \in DOMAIN requests :
          (ThenRan(i) /\ requests[i].p0 = "fulfilled" /\ requests[i].data = "")
          => message_headers' =
                "Message with LMTP \"" \o IssuingArgs[i][1].v
                    \o "\" not found. It may have been deleted."]_vars

\* the request for "X" was answered (empty body) after the prop had become
\* "Z" and the request for "Z" had been issued; the text names "X"
C16_Witness ==
    /\ Len(requests) = 2
    /\ calls[1][1] = Str("X")
    /\ lmtp_id = Str("Z")
    /\ requests[2].lmtp_id = "Z" /\ 1 \in requests[2].overlaps
    /\ Pending(requests[2])
    /\ requests[1].p1 = "fulfilled" /\ requests[1].data = ""
    /\ message_headers = "Message with LMTP \"X\" not found. It may have been deleted."

====
